---- MODULE Spec2Model ----
(***************************************************************************)
(* size_hinter: the SizeHint interval type and the two iterator adaptors   *)
(* ExactLen and HintSize, modelled as one scenario: a wrapped producer is   *)
(* chosen, one constructor is called on it, and the resulting adaptor is    *)
(* polled from either end.                                                  *)
(***************************************************************************)
EXTENDS Integers, Sequences, FiniteSets, TLC

\* ------------------------------------------------------------------------
\* Bounds of the model
\* ------------------------------------------------------------------------
MaxItems == 4      \* longest underlying sequence of a wrapped producer
MaxArg == 6        \* largest declared len / lower / upper argument
MaxHint == 2       \* largest bound of a TestIterator's fixed hint
MaxCalls == 6      \* next/next_back calls made on one adaptor
MaxBound == 3      \* largest bound of a SizeHint operand of the interval operations
MaxTimes == 3      \* longest run of decrement applications

\* InvalidIterator::INVALID_SIZE_HINT = (10, Some(5))
InvalidLower == 10
InvalidUpper == 5

\* ------------------------------------------------------------------------
\* Option<T>: None is the empty sequence, Some(x) the one-element sequence
\* ------------------------------------------------------------------------
None == << >>
Some(x) == << x >>
IsSome(o) == Len(o) = 1
Unwrap(o) == o[1]

\* variant: plain subtraction, which leaves the range of usize below zero
SaturatingSub_Plain(a, b) == a - b

\* usize::saturating_sub
SaturatingSub(a, b) == IF a >= b THEN a - b ELSE 0

\* usize::checked_sub
CheckedSub(a, b) == IF a >= b THEN Some(a - b) ELSE None

\* Result values: Ok carries a payload, Err is InvalidSizeHint, Panic unwinds
Ok(v) == [tag |-> "Ok", value |-> v]
Err == [tag |-> "Err"]
Panic == [tag |-> "Panic"]

\* Result::expect: Ok passes through, Err panics (a panic stays a panic)
Expect(r) == IF r.tag = "Ok" THEN r ELSE Panic

\* ------------------------------------------------------------------------
\* SizeHint (src/src/size_hint.rs)
\* ------------------------------------------------------------------------
SizeHintOf(lower, upper) == [lower |-> lower, upper |-> upper]

UNIVERSAL == SizeHintOf(0, None)
ZERO == SizeHintOf(0, Some(0))

SizeHint_try_new(lower, upper) ==
    IF IsSome(upper) /\ lower > Unwrap(upper)
    THEN Err
    ELSE Ok(SizeHintOf(lower, upper))

SizeHint_new(lower, upper) ==
    LET r == SizeHint_try_new(lower, upper)
    IN  IF r.tag = "Ok" THEN r ELSE Panic

\* variant: a hint with lower = upper is rejected too
SizeHint_try_bounded_Strict(lower, upper) ==
    IF lower >= upper THEN Err ELSE Ok(SizeHintOf(lower, Some(upper)))

SizeHint_try_bounded(lower, upper) ==
    IF lower > upper THEN Err ELSE Ok(SizeHintOf(lower, Some(upper)))

SizeHint_bounded(lower, upper) ==
    LET r == SizeHint_try_bounded(lower, upper)
    IN  IF r.tag = "Ok" THEN r ELSE Panic

SizeHint_unbounded(lower) == SizeHintOf(lower, None)

\* variant: builds the "at most" interval instead of the exact one
SizeHint_exact_AtMost(len) == SizeHintOf(0, Some(len))

SizeHint_exact(len) == SizeHintOf(len, Some(len))

SizeHint_as_hint(h) == << h.lower, h.upper >>

\* variant: the lower bound is left alone
SizeHint_decrement_UpperOnly(h) ==
    SizeHintOf(h.lower,
               IF IsSome(h.upper) THEN Some(SaturatingSub(Unwrap(h.upper), 1)) ELSE None)

\* variant: the interval is shifted as a whole, and not at all once lower is 0
SizeHint_decrement_Joint(h) ==
    IF h.lower = 0 THEN h
    ELSE SizeHintOf(h.lower - 1, IF IsSome(h.upper) THEN Some(Unwrap(h.upper) - 1) ELSE None)

\* variant: the upper bound is decremented without saturation
SizeHint_decrement_UpperPlain(h) ==
    SizeHintOf(SaturatingSub(h.lower, 1),
               IF IsSome(h.upper) THEN Some(Unwrap(h.upper) - 1) ELSE None)

\* variant: an absent upper bound is defaulted before the subtraction
SizeHint_decrement_Defaulting(h) ==
    SizeHintOf(SaturatingSub(h.lower, 1),
               Some(SaturatingSub(IF IsSome(h.upper) THEN Unwrap(h.upper) ELSE 0, 1)))

SizeHint_decrement(h) ==
    SizeHintOf(SaturatingSub(h.lower, 1),
               IF IsSome(h.upper) THEN Some(SaturatingSub(Unwrap(h.upper), 1)) ELSE None)

\* variant: touching boundaries are not counted as overlap
SizeHint_overlaps_Strict(a, b) ==
    LET x == SizeHint_as_hint(a)
        y == SizeHint_as_hint(b)
    IN  CASE IsSome(x[2]) /\ IsSome(y[2]) ->
                 x[1] < Unwrap(y[2]) /\ y[1] < Unwrap(x[2])
          [] IsSome(x[2]) /\ ~IsSome(y[2]) -> Unwrap(x[2]) > y[1]
          [] ~IsSome(x[2]) /\ IsSome(y[2]) -> Unwrap(y[2]) > x[1]
          [] OTHER -> TRUE

SizeHint_overlaps(a, b) ==
    LET x == SizeHint_as_hint(a)
        y == SizeHint_as_hint(b)
    IN  CASE IsSome(x[2]) /\ IsSome(y[2]) ->
                 x[1] <= Unwrap(y[2]) /\ y[1] <= Unwrap(x[2])
          [] IsSome(x[2]) /\ ~IsSome(y[2]) -> Unwrap(x[2]) >= y[1]
          [] ~IsSome(x[2]) /\ IsSome(y[2]) -> Unwrap(y[2]) >= x[1]
          [] OTHER -> TRUE

\* variant: only "self lies wholly below other" is recognised
SizeHint_disjoint_OneSided(a, b) == IsSome(a.upper) /\ Unwrap(a.upper) < b.lower

SizeHint_disjoint(a, b) == ~SizeHint_overlaps(a, b)

\* variant: the upper bounds alone decide between two bounded hints
SizeHint_subset_of_UpperOnly(a, b) ==
    LET x == SizeHint_as_hint(a)
        y == SizeHint_as_hint(b)
    IN  CASE IsSome(x[2]) /\ IsSome(y[2]) -> Unwrap(x[2]) <= Unwrap(y[2])
          [] ~IsSome(y[2]) -> x[1] >= y[1]
          [] OTHER -> FALSE

\* variant: an unbounded hint is compared with a bounded one by its lower bound
SizeHint_subset_of_NoFalseArm(a, b) ==
    LET x == SizeHint_as_hint(a)
        y == SizeHint_as_hint(b)
    IN  CASE IsSome(x[2]) /\ IsSome(y[2]) ->
                 x[1] >= y[1] /\ Unwrap(x[2]) <= Unwrap(y[2])
          [] OTHER -> x[1] >= y[1]

SizeHint_subset_of(a, b) ==
    LET x == SizeHint_as_hint(a)
        y == SizeHint_as_hint(b)
    IN  CASE IsSome(x[2]) /\ IsSome(y[2]) ->
                 x[1] >= y[1] /\ Unwrap(x[2]) <= Unwrap(y[2])
          [] ~IsSome(y[2]) -> x[1] >= y[1]
          [] OTHER -> FALSE

\* variant: a tuple without an upper bound becomes the universal hint
SizeHint_try_from_DropsLower(t) ==
    IF IsSome(t[2])
    THEN SizeHint_try_bounded(t[1], Unwrap(t[2]))
    ELSE Ok(UNIVERSAL)

\* TryFrom<(usize, Option<usize>)> for SizeHint
SizeHint_try_from(t) ==
    IF IsSome(t[2])
    THEN SizeHint_try_bounded(t[1], Unwrap(t[2]))
    ELSE Ok(SizeHint_unbounded(t[1]))

\* From<SizeHint> for (usize, Option<usize>)
SizeHint_into(h) == << h.lower, h.upper >>

\* PartialEq<(usize, Option<usize>)> for SizeHint
SizeHint_eq_tuple(h, t) == h.lower = t[1] /\ h.upper = t[2]

\* PartialEq<SizeHint> for (usize, Option<usize>)
Tuple_eq_SizeHint(t, h) == t[1] = h.lower /\ t[2] = h.upper

\* variant: the end is decremented with saturation, so 0..0 becomes (0, Some(0))
SizeHint_try_from_Range_Saturating(start, end) ==
    SizeHint_try_bounded(start, SaturatingSub(end, 1))

\* TryFrom<Range<usize>> for SizeHint: start..end
SizeHint_try_from_Range(start, end) ==
    LET e == CheckedSub(end, 1)
    IN  IF ~IsSome(e) THEN Err ELSE SizeHint_try_bounded(start, Unwrap(e))

\* TryFrom<RangeInclusive<usize>> for SizeHint: start..=end
SizeHint_try_from_RangeInclusive(start, end) == SizeHint_try_bounded(start, end)

\* From<RangeFull> for SizeHint: ..
SizeHint_from_RangeFull == UNIVERSAL

\* From<RangeFrom<usize>> for SizeHint: start..
SizeHint_from_RangeFrom(start) == SizeHintOf(start, None)

\* TryFrom<RangeTo<usize>> for SizeHint: ..end
SizeHint_try_from_RangeTo(end) ==
    LET e == CheckedSub(end, 1)
    IN  IF ~IsSome(e) THEN Err ELSE SizeHint_try_bounded(0, Unwrap(e))

\* From<RangeToInclusive<usize>> for SizeHint: ..=end
SizeHint_from_RangeToInclusive(end) == SizeHintOf(0, Some(end))

\* variant: only the start bound is tested
SizeHint_contains_LowerOnly(h, n) == h.lower <= n

\* RangeBounds<usize> for SizeHint: start_bound is Included(lower), end_bound
\* is Included(upper) or Unbounded; RangeBounds::contains tests both ends
SizeHint_contains(h, n) ==
    /\ h.lower <= n
    /\ (IsSome(h.upper) => n <= Unwrap(h.upper))

\* ------------------------------------------------------------------------
\* Wrapped producers.  A producer is a record
\*   kind  : "Range" | "Filter" | "TestIterator" | "InvalidIterator" | "Resuming"
\*   items : the elements still held by the underlying range
\*   keep  : the elements the filter predicate accepts (all, for a Range)
\*   hint  : the fixed size hint a TestIterator was built with
\* A "Resuming" producer is an Iterator without the FusedIterator marker: its
\* items are the Option values its next() returns one after the other, so it
\* can return None and yield again afterwards.
\* ------------------------------------------------------------------------
RangeItems(m) == [i \in 1..m |-> i]

SeqElems(s) == {s[i] : i \in 1..Len(s)}

\* TEST_ITER-like range 1..m+1: m elements, exact hint
RangeIter(m) ==
    [kind |-> "Range", items |-> RangeItems(m), keep |-> 1..m, hint |-> << 0, None >>]

\* (1..=m).filter(|x| keep(x)), as in the ExactLen doc example
FilterIter(m, keep) ==
    [kind |-> "Filter", items |-> RangeItems(m), keep |-> keep, hint |-> << 0, None >>]

\* TestIterator::new(size_hint): the hint is stored unchecked
TestIterator_new(size_hint) ==
    [kind |-> "TestIterator", items |-> << >>, keep |-> {}, hint |-> size_hint]

\* an Iterator that is not a FusedIterator, replaying `script`
ResumingIter(script) ==
    [kind |-> "Resuming", items |-> script, keep |-> {}, hint |-> << 0, None >>]

\* I: FusedIterator
IsFused(it) == it.kind # "Resuming"

\* I: DoubleEndedIterator
IsDoubleEnded(it) == it.kind # "Resuming"

INVALID_SIZE_HINT == << InvalidLower, Some(InvalidUpper) >>

INVALID_UNIT_ITERATOR ==
    [kind |-> "InvalidIterator", items |-> << >>, keep |-> {}, hint |-> INVALID_SIZE_HINT]

\* Iterator::size_hint of the wrapped producer
Iter_size_hint(it) ==
    CASE it.kind = "Range" -> << Len(it.items), Some(Len(it.items)) >>
      [] it.kind = "Filter" -> << 0, Some(Len(it.items)) >>
      [] it.kind = "TestIterator" -> it.hint
      [] it.kind = "Resuming" -> << 0, None >>
      [] OTHER -> INVALID_SIZE_HINT

\* positions of the underlying elements the producer will still yield
KeptIdx(it) == {i \in 1..Len(it.items) : it.items[i] \in it.keep}

MinOf(S) == CHOOSE x \in S : \A y \in S : x <= y
MaxOf(S) == CHOOSE x \in S : \A y \in S : x >= y

\* the elements the producer would yield from its current state, in order
RECURSIVE Remaining(_)
Remaining(it) ==
    IF KeptIdx(it) = {} THEN << >>
    ELSE LET i == MinOf(KeptIdx(it))
         IN  << it.items[i] >> \o
             Remaining([it EXCEPT !.items = SubSeq(it.items, i + 1, Len(it.items))])

\* Iterator::next of the wrapped producer: [panic, item, iterator]
Iter_next(it) ==
    IF it.kind \in {"TestIterator", "InvalidIterator"}
    THEN [panic |-> TRUE, item |-> None, iterator |-> it]
    ELSE IF it.kind = "Resuming"
    THEN IF it.items = << >>
         THEN [panic |-> FALSE, item |-> None, iterator |-> it]
         ELSE [panic |-> FALSE, item |-> Head(it.items),
               iterator |-> [it EXCEPT !.items = Tail(it.items)]]
    ELSE IF KeptIdx(it) = {}
    THEN [panic |-> FALSE, item |-> None, iterator |-> [it EXCEPT !.items = << >>]]
    ELSE LET i == MinOf(KeptIdx(it))
         IN  [panic |-> FALSE, item |-> Some(it.items[i]),
              iterator |-> [it EXCEPT !.items = SubSeq(it.items, i + 1, Len(it.items))]]

\* DoubleEndedIterator::next_back of the wrapped producer
Iter_next_back(it) ==
    IF it.kind \in {"TestIterator", "InvalidIterator"}
    THEN [panic |-> TRUE, item |-> None, iterator |-> it]
    ELSE IF KeptIdx(it) = {}
    THEN [panic |-> FALSE, item |-> None, iterator |-> [it EXCEPT !.items = << >>]]
    ELSE LET i == MaxOf(KeptIdx(it))
         IN  [panic |-> FALSE, item |-> Some(it.items[i]),
              iterator |-> [it EXCEPT !.items = SubSeq(it.items, 1, i - 1)]]

\* ------------------------------------------------------------------------
\* ExactLen (src/src/exact_len.rs)
\* ------------------------------------------------------------------------
ExactLen_try_new(it, n) ==
    LET wrapped == Expect(SizeHint_try_from(Iter_size_hint(it)))
    IN  IF wrapped.tag = "Panic" THEN Panic
        ELSE IF ~SizeHint_contains(wrapped.value, n) THEN Err
        ELSE Ok([iterator |-> it, len |-> n])

ExactLen_new(it, n) == Expect(ExactLen_try_new(it, n))

\* variant: the producer is cut down to the stored count before it is returned
ExactLen_into_inner_Truncating(it, n) ==
    [it EXCEPT !.items = SubSeq(it.items, 1, MinOf({n, Len(it.items)}))]

\* ExactLen::into_inner: self.iterator
ExactLen_into_inner(it, n) == it

\* variant: the count is decremented whether or not an element came back
ExactLen_next_DecAlways(it, n) ==
    LET r == Iter_next(it)
    IN  IF r.panic THEN [panic |-> TRUE, item |-> None, iterator |-> it, len |-> n]
        ELSE [panic |-> FALSE, item |-> r.item, iterator |-> r.iterator,
              len |-> SaturatingSub(n, 1)]

\* variant: the count is cleared once the producer is exhausted
ExactLen_next_ResetOnNone(it, n) ==
    LET r == Iter_next(it)
    IN  IF r.panic THEN [panic |-> TRUE, item |-> None, iterator |-> it, len |-> n]
        ELSE [panic |-> FALSE, item |-> r.item, iterator |-> r.iterator,
              len |-> IF IsSome(r.item) THEN SaturatingSub(n, 1) ELSE 0]

ExactLen_next(it, n) ==
    LET r == Iter_next(it)
    IN  IF r.panic THEN [panic |-> TRUE, item |-> None, iterator |-> it, len |-> n]
        ELSE IF IsSome(r.item)
        THEN [panic |-> FALSE, item |-> r.item, iterator |-> r.iterator,
              len |-> SaturatingSub(n, 1)]
        ELSE [panic |-> FALSE, item |-> None, iterator |-> r.iterator, len |-> n]

\* variant: the back end forwards the element without touching the count
ExactLen_next_back_NoDec(it, n) ==
    LET r == Iter_next_back(it)
    IN  IF r.panic THEN [panic |-> TRUE, item |-> None, iterator |-> it, len |-> n]
        ELSE [panic |-> FALSE, item |-> r.item, iterator |-> r.iterator, len |-> n]

\* variant: next_back takes its element from the front
ExactLen_next_back_FromFront(it, n) ==
    LET r == Iter_next(it)
    IN  IF r.panic THEN [panic |-> TRUE, item |-> None, iterator |-> it, len |-> n]
        ELSE IF IsSome(r.item)
        THEN [panic |-> FALSE, item |-> r.item, iterator |-> r.iterator,
              len |-> SaturatingSub(n, 1)]
        ELSE [panic |-> FALSE, item |-> None, iterator |-> r.iterator, len |-> n]

ExactLen_next_back(it, n) ==
    LET r == Iter_next_back(it)
    IN  IF r.panic THEN [panic |-> TRUE, item |-> None, iterator |-> it, len |-> n]
        ELSE IF IsSome(r.item)
        THEN [panic |-> FALSE, item |-> Some(Unwrap(r.item)), iterator |-> r.iterator,
              len |-> SaturatingSub(n, 1)]
        ELSE [panic |-> FALSE, item |-> None, iterator |-> r.iterator, len |-> n]

ExactLen_size_hint(n) == SizeHint_into(SizeHint_exact(n))

ExactLen_len(n) == n

\* ------------------------------------------------------------------------
\* HintSize (src/src/hint_size.rs)
\* ------------------------------------------------------------------------
\* variant: the declared hint must lie inside the wrapped hint
HintSize_try_new_impl_Subset(it, h) ==
    LET wrapped == Expect(SizeHint_try_from(Iter_size_hint(it)))
    IN  IF wrapped.tag = "Panic" THEN Panic
        ELSE IF ~SizeHint_subset_of(h, wrapped.value) THEN Err
        ELSE Ok([iterator |-> it, hint |-> h])

\* variant: the hint is stored without being compared with the producer's
HintSize_try_new_impl_Unchecked(it, h) ==
    LET wrapped == Expect(SizeHint_try_from(Iter_size_hint(it)))
    IN  IF wrapped.tag = "Panic" THEN Panic
        ELSE Ok([iterator |-> it, hint |-> h])

HintSize_try_new_impl(it, h) ==
    LET wrapped == Expect(SizeHint_try_from(Iter_size_hint(it)))
    IN  IF wrapped.tag = "Panic" THEN Panic
        ELSE IF ~SizeHint_overlaps(h, wrapped.value) THEN Err
        ELSE Ok([iterator |-> it, hint |-> h])

\* the `?` on try_bounded returns Err before try_new_impl is entered
HintSize_try_new(it, lower, upper) ==
    LET b == SizeHint_try_bounded(lower, upper)
    IN  IF b.tag = "Err" THEN Err ELSE HintSize_try_new_impl(it, b.value)

HintSize_new(it, lower, upper) == Expect(HintSize_try_new(it, lower, upper))

\* variant: the lower-only hint is installed without validation
HintSize_try_min_Unchecked(it, lower) ==
    Ok([iterator |-> it, hint |-> SizeHint_unbounded(lower)])

HintSize_try_min(it, lower) == HintSize_try_new_impl(it, SizeHint_unbounded(lower))

\* variant: a rejected hint falls back to the universal hint
HintSize_min_Fallback(it, lower) ==
    LET r == HintSize_try_min(it, lower)
    IN  IF r.tag = "Err" THEN Ok([iterator |-> it, hint |-> UNIVERSAL]) ELSE Expect(r)

HintSize_min(it, lower) == Expect(HintSize_try_min(it, lower))

\* variant: hide validates like the other constructors
HintSize_hide_Validating(it) == HintSize_try_new_impl(it, UNIVERSAL)

HintSize_hide(it) == Ok([iterator |-> it, hint |-> UNIVERSAL])

\* HintSize::into_inner: self.iterator
HintSize_into_inner(it, h) == it

\* variant: the hint is decremented whether or not an element came back
HintSize_next_DecAlways(it, h) ==
    LET r == Iter_next(it)
    IN  IF r.panic THEN [panic |-> TRUE, item |-> None, iterator |-> it, hint |-> h]
        ELSE [panic |-> FALSE, item |-> r.item, iterator |-> r.iterator,
              hint |-> SizeHint_decrement(h)]

HintSize_next(it, h) ==
    LET r == Iter_next(it)
    IN  IF r.panic THEN [panic |-> TRUE, item |-> None, iterator |-> it, hint |-> h]
        ELSE IF IsSome(r.item)
        THEN [panic |-> FALSE, item |-> r.item, iterator |-> r.iterator,
              hint |-> SizeHint_decrement(h)]
        ELSE [panic |-> FALSE, item |-> None, iterator |-> r.iterator, hint |-> h]

\* variant: the back end forwards the element without touching the hint
HintSize_next_back_NoDec(it, h) ==
    LET r == Iter_next_back(it)
    IN  IF r.panic THEN [panic |-> TRUE, item |-> None, iterator |-> it, hint |-> h]
        ELSE [panic |-> FALSE, item |-> r.item, iterator |-> r.iterator, hint |-> h]

HintSize_next_back(it, h) ==
    LET r == Iter_next_back(it)
    IN  IF r.panic THEN [panic |-> TRUE, item |-> None, iterator |-> it, hint |-> h]
        ELSE IF IsSome(r.item)
        THEN [panic |-> FALSE, item |-> r.item, iterator |-> r.iterator,
              hint |-> SizeHint_decrement(h)]
        ELSE [panic |-> FALSE, item |-> None, iterator |-> r.iterator, hint |-> h]

HintSize_size_hint(h) == SizeHint_into(h)

\* ------------------------------------------------------------------------
\* State
\* ------------------------------------------------------------------------
VARIABLES
    pc,        \* "start" | "live" | "failed" | "panicked" | "value"
    ctor,      \* the constructor that was called ("" before the call)
    args,      \* its declared arguments, as a tuple
    outcome,   \* "Ok" | "Err" | "Panic" of the constructor ("" before the call)
    adaptor,   \* "none" | "ExactLen" | "HintSize"
    iterator,  \* the wrapped producer (field `iterator`)
    len,       \* ExactLen.len
    hint,      \* HintSize.hint, or the SizeHint a SizeHint constructor built
    ret,       \* what the last next/next_back call returned
    calls,     \* number of next/next_back calls made
    consumed,  \* number of those calls that returned an element
    method,    \* the last method polled: "" | "next" | "next_back"
    source,    \* the producer as it was handed to the constructor
    inner,     \* what into_inner returned (None before it is called)
    ha,        \* first SizeHint operand of the interval operations
    hb,        \* second SizeHint operand
    hc,        \* third SizeHint operand
    aux,       \* the plain arguments of a conversion, or further results
    op,        \* the interval operation applied last ("" before any)
    res,       \* its result on (ha, hb)
    rev,       \* its result on (hb, ha)
    times      \* how many times in a row it was applied

adaptorVars ==
    << pc, ctor, args, outcome, adaptor, iterator, len, hint, ret, calls, consumed, method,
       source, inner >>

hintVars == << ha, hb, hc, aux, op, res, rev, times >>

vars == << adaptorVars, hintVars >>

Args == 0..MaxArg

OptArgs == {None} \cup {Some(u) : u \in Args}

TestHints == {<< l, u >> : l \in 0..MaxHint, u \in {None} \cup {Some(x) : x \in 0..MaxHint}}

\* what a non-fused producer returns call after call
ResumingScripts ==
    { << Some(1), None, Some(2) >>, << None, Some(1) >>, << Some(1), Some(2), Some(3) >> }

Producers ==
    {RangeIter(m) : m \in 0..MaxItems}
    \cup {FilterIter(m, k) : m \in 0..MaxItems, k \in SUBSET (1..MaxItems)}
    \cup {TestIterator_new(h) : h \in TestHints}
    \cup {INVALID_UNIT_ITERATOR}
    \cup {ResumingIter(sc) : sc \in ResumingScripts}

Init ==
    /\ pc = "start"
    /\ ctor = ""
    /\ args = << >>
    /\ outcome = ""
    /\ adaptor = "none"
    /\ iterator \in Producers
    /\ source = iterator
    /\ inner = None
    /\ len = 0
    /\ hint = UNIVERSAL
    /\ ret = None
    /\ calls = 0
    /\ consumed = 0
    /\ method = ""
    /\ ha = UNIVERSAL
    /\ hb = UNIVERSAL
    /\ hc = UNIVERSAL
    /\ aux = << >>
    /\ op = ""
    /\ res = None
    /\ rev = None
    /\ times = 0

\* a constructor of ExactLen returned r
BuiltExactLen(name, a, r) ==
    /\ pc = "start"
    /\ ctor' = name
    /\ args' = a
    /\ outcome' = r.tag
    /\ IF r.tag = "Ok"
       THEN /\ pc' = "live"
            /\ adaptor' = "ExactLen"
            /\ iterator' = r.value.iterator
            /\ len' = r.value.len
       ELSE /\ pc' = (IF r.tag = "Err" THEN "failed" ELSE "panicked")
            /\ UNCHANGED << adaptor, iterator, len >>
    /\ UNCHANGED << hint, ret, calls, consumed, method, source, inner >>
    /\ UNCHANGED hintVars

\* a constructor of HintSize returned r
BuiltHintSize(name, a, r) ==
    /\ pc = "start"
    /\ ctor' = name
    /\ args' = a
    /\ outcome' = r.tag
    /\ IF r.tag = "Ok"
       THEN /\ pc' = "live"
            /\ adaptor' = "HintSize"
            /\ iterator' = r.value.iterator
            /\ hint' = r.value.hint
       ELSE /\ pc' = (IF r.tag = "Err" THEN "failed" ELSE "panicked")
            /\ UNCHANGED << adaptor, iterator, hint >>
    /\ UNCHANGED << len, ret, calls, consumed, method, source, inner >>
    /\ UNCHANGED hintVars

\* a constructor of SizeHint returned r
BuiltSizeHint(name, a, r) ==
    /\ pc = "start"
    /\ ctor' = name
    /\ args' = a
    /\ outcome' = r.tag
    /\ IF r.tag = "Ok"
       THEN /\ pc' = "value"
            /\ hint' = r.value
       ELSE /\ pc' = (IF r.tag = "Err" THEN "failed" ELSE "panicked")
            /\ UNCHANGED hint
    /\ UNCHANGED << adaptor, iterator, len, ret, calls, consumed, method, source, inner >>
    /\ UNCHANGED hintVars

\* impl<I: FusedIterator> ExactLen<I>
CallExactLenNew ==
    /\ IsFused(iterator)
    /\ \E k \in Args : BuiltExactLen("ExactLen::new", << k >>, ExactLen_new(iterator, k))

CallExactLenTryNew ==
    /\ IsFused(iterator)
    /\ \E k \in Args :
           BuiltExactLen("ExactLen::try_new", << k >>, ExactLen_try_new(iterator, k))

\* HintSize::new is the one HintSize constructor with `where I: FusedIterator`
CallHintSizeNew ==
    /\ IsFused(iterator)
    /\ \E l \in Args, u \in Args :
           BuiltHintSize("HintSize::new", << l, u >>, HintSize_new(iterator, l, u))

CallHintSizeTryNew ==
    \E l \in Args, u \in Args :
        BuiltHintSize("HintSize::try_new", << l, u >>, HintSize_try_new(iterator, l, u))

CallHintSizeMin ==
    \E l \in Args : BuiltHintSize("HintSize::min", << l >>, HintSize_min(iterator, l))

CallHintSizeTryMin ==
    \E l \in Args : BuiltHintSize("HintSize::try_min", << l >>, HintSize_try_min(iterator, l))

CallHintSizeHide ==
    BuiltHintSize("HintSize::hide", << >>, HintSize_hide(iterator))

CallSizeHintNew ==
    \E l \in Args, u \in OptArgs :
        BuiltSizeHint("SizeHint::new", << l, u >>, SizeHint_new(l, u))

CallSizeHintTryNew ==
    \E l \in Args, u \in OptArgs :
        BuiltSizeHint("SizeHint::try_new", << l, u >>, SizeHint_try_new(l, u))

CallSizeHintBounded ==
    \E l \in Args, u \in Args :
        BuiltSizeHint("SizeHint::bounded", << l, u >>, SizeHint_bounded(l, u))

CallSizeHintTryBounded ==
    \E l \in Args, u \in Args :
        BuiltSizeHint("SizeHint::try_bounded", << l, u >>, SizeHint_try_bounded(l, u))

CallSizeHintUnbounded ==
    \E l \in Args :
        BuiltSizeHint("SizeHint::unbounded", << l >>, Ok(SizeHint_unbounded(l)))

CallSizeHintExact ==
    \E k \in Args :
        BuiltSizeHint("SizeHint::exact", << k >>, Ok(SizeHint_exact(k)))

\* a next/next_back call on the ExactLen returned r
PolledExactLen(r) ==
    /\ pc = "live"
    /\ adaptor = "ExactLen"
    /\ calls < MaxCalls
    /\ calls' = calls + 1
    /\ IF r.panic
       THEN /\ pc' = "panicked"
            /\ UNCHANGED << iterator, len, ret, consumed >>
       ELSE /\ pc' = pc
            /\ iterator' = r.iterator
            /\ len' = r.len
            /\ ret' = r.item
            /\ consumed' = (IF IsSome(r.item) THEN consumed + 1 ELSE consumed)
    /\ UNCHANGED << ctor, args, outcome, adaptor, hint, source, inner >>
    /\ UNCHANGED hintVars

\* a next/next_back call on the HintSize returned r
PolledHintSize(r) ==
    /\ pc = "live"
    /\ adaptor = "HintSize"
    /\ calls < MaxCalls
    /\ calls' = calls + 1
    /\ IF r.panic
       THEN /\ pc' = "panicked"
            /\ UNCHANGED << iterator, hint, ret, consumed >>
       ELSE /\ pc' = pc
            /\ iterator' = r.iterator
            /\ hint' = r.hint
            /\ ret' = r.item
            /\ consumed' = (IF IsSome(r.item) THEN consumed + 1 ELSE consumed)
    /\ UNCHANGED << ctor, args, outcome, adaptor, len, source, inner >>
    /\ UNCHANGED hintVars

ExactLenNext ==
    /\ PolledExactLen(ExactLen_next(iterator, len))
    /\ method' = "next"

\* impl<I: DoubleEndedIterator + FusedIterator> DoubleEndedIterator for ExactLen<I>
ExactLenNextBack ==
    /\ IsDoubleEnded(iterator)
    /\ PolledExactLen(ExactLen_next_back(iterator, len))
    /\ method' = "next_back"

HintSizeNext ==
    /\ PolledHintSize(HintSize_next(iterator, hint))
    /\ method' = "next"

\* impl<I: DoubleEndedIterator> DoubleEndedIterator for HintSize<I>
HintSizeNextBack ==
    /\ IsDoubleEnded(iterator)
    /\ PolledHintSize(HintSize_next_back(iterator, hint))
    /\ method' = "next_back"

\* into_inner consumed the adaptor and returned r
Unwrapped(r) ==
    /\ pc = "live"
    /\ pc' = "unwrapped"
    /\ inner' = Some(r)
    /\ UNCHANGED << ctor, args, outcome, adaptor, iterator, len, hint, ret, calls, consumed,
                    method, source >>
    /\ UNCHANGED hintVars

ExactLenIntoInner ==
    /\ adaptor = "ExactLen"
    /\ Unwrapped(ExactLen_into_inner(iterator, len))

HintSizeIntoInner ==
    /\ adaptor = "HintSize"
    /\ Unwrapped(HintSize_into_inner(iterator, hint))

Next ==
    \/ CallExactLenNew
    \/ CallExactLenTryNew
    \/ CallHintSizeNew
    \/ CallHintSizeTryNew
    \/ CallHintSizeMin
    \/ CallHintSizeTryMin
    \/ CallHintSizeHide
    \/ CallSizeHintNew
    \/ CallSizeHintTryNew
    \/ CallSizeHintBounded
    \/ CallSizeHintTryBounded
    \/ CallSizeHintUnbounded
    \/ CallSizeHintExact
    \/ ExactLenIntoInner
    \/ HintSizeIntoInner
    \/ ExactLenNext
    \/ ExactLenNextBack
    \/ HintSizeNext
    \/ HintSizeNextBack

Spec == Init /\ [][Next]_vars

\* ------------------------------------------------------------------------
\* The interval operations of SizeHint on their own: two valid hints are
\* drawn and decrement / overlaps / disjoint are applied to them.
\* ------------------------------------------------------------------------
HintBounds == 0..MaxBound

\* every SizeHint a constructor returns for bounds up to MaxBound
ValidHints ==
    {SizeHint_try_new(l, u).value :
        << l, u >> \in {t \in HintBounds \X ({None} \cup {Some(x) : x \in HintBounds}) :
                           SizeHint_try_new(t[1], t[2]).tag = "Ok"}}

InitHints ==
    /\ pc = "hints"
    /\ ctor = ""
    /\ args = << >>
    /\ outcome = ""
    /\ adaptor = "none"
    /\ iterator = RangeIter(0)
    /\ source = iterator
    /\ inner = None
    /\ len = 0
    /\ hint = UNIVERSAL
    /\ ret = None
    /\ calls = 0
    /\ consumed = 0
    /\ method = ""
    /\ ha \in ValidHints
    /\ hb \in ValidHints
    /\ hc \in ValidHints
    /\ aux = << >>
    /\ op = ""
    /\ res = None
    /\ rev = None
    /\ times = 0

\* ha.decrement() and hb.decrement(), applied again to the previous results
Decrement ==
    /\ pc = "hints"
    /\ op = "decrement" => times < MaxTimes
    /\ res' = SizeHint_decrement(IF op = "decrement" THEN res ELSE ha)
    /\ rev' = SizeHint_decrement(IF op = "decrement" THEN rev ELSE hb)
    /\ times' = (IF op = "decrement" THEN times + 1 ELSE 1)
    /\ op' = "decrement"
    /\ aux' = << >>
    /\ UNCHANGED << ha, hb, hc >>
    /\ UNCHANGED adaptorVars

\* SizeHint::overlaps(ha, hb) and SizeHint::overlaps(hb, ha)
Overlaps ==
    /\ pc = "hints"
    /\ res' = SizeHint_overlaps(ha, hb)
    /\ rev' = SizeHint_overlaps(hb, ha)
    /\ times' = 1
    /\ op' = "overlaps"
    /\ aux' = << >>
    /\ UNCHANGED << ha, hb, hc >>
    /\ UNCHANGED adaptorVars

\* SizeHint::disjoint(ha, hb) and SizeHint::disjoint(hb, ha)
Disjoint ==
    /\ pc = "hints"
    /\ res' = SizeHint_disjoint(ha, hb)
    /\ rev' = SizeHint_disjoint(hb, ha)
    /\ times' = 1
    /\ op' = "disjoint"
    /\ aux' = << >>
    /\ UNCHANGED << ha, hb, hc >>
    /\ UNCHANGED adaptorVars

\* SizeHint::subset_of over the operands: (ha, hb) and (hb, ha), and in aux
\* (hb, hc), (ha, hc) and (ha, ha)
SubsetOf ==
    /\ pc = "hints"
    /\ res' = SizeHint_subset_of(ha, hb)
    /\ rev' = SizeHint_subset_of(hb, ha)
    /\ aux' = << SizeHint_subset_of(hb, hc), SizeHint_subset_of(ha, hc),
                 SizeHint_subset_of(ha, ha) >>
    /\ times' = 1
    /\ op' = "subset_of"
    /\ UNCHANGED << ha, hb, hc >>
    /\ UNCHANGED adaptorVars

NextHints ==
    \/ Decrement
    \/ Overlaps
    \/ Disjoint
    \/ SubsetOf

SpecHints == InitHints /\ [][NextHints]_vars

\* ------------------------------------------------------------------------
\* The conversions of SizeHint on their own: a valid hint ha, a plain tuple
\* (aux[1], aux[2]) that need not be valid, and the bounds aux[1], aux[3] of a
\* range are drawn, and the conversions and comparisons are applied to them.
\* ------------------------------------------------------------------------
OptBounds == {None} \cup {Some(x) : x \in HintBounds}

InitConv ==
    /\ pc = "conv"
    /\ ctor = ""
    /\ args = << >>
    /\ outcome = ""
    /\ adaptor = "none"
    /\ iterator = RangeIter(0)
    /\ source = iterator
    /\ inner = None
    /\ len = 0
    /\ hint = UNIVERSAL
    /\ ret = None
    /\ calls = 0
    /\ consumed = 0
    /\ method = ""
    /\ ha \in ValidHints
    /\ hb = UNIVERSAL
    /\ hc = UNIVERSAL
    /\ aux \in HintBounds \X OptBounds \X HintBounds
    /\ op = ""
    /\ res = None
    /\ rev = None
    /\ times = 0

\* a conversion or comparison named `name` returned r, and q in the other direction
Converted(name, r, q) ==
    /\ pc = "conv"
    /\ op' = name
    /\ res' = r
    /\ rev' = q
    /\ times' = 1
    /\ UNCHANGED << ha, hb, hc, aux >>
    /\ UNCHANGED adaptorVars

\* ha.into(), and SizeHint::try_from of that tuple
IntoTuple ==
    Converted("into", SizeHint_into(ha), SizeHint_try_from(SizeHint_into(ha)))

\* SizeHint::try_from((aux[1], aux[2])), and the result converted back
TryFromTuple ==
    LET r == SizeHint_try_from(<< aux[1], aux[2] >>)
    IN  Converted("try_from", r,
                  IF r.tag = "Ok" THEN Some(SizeHint_into(r.value)) ELSE None)

\* ha == (aux[1], aux[2]) and (aux[1], aux[2]) == ha
EqTuple ==
    Converted("eq", SizeHint_eq_tuple(ha, << aux[1], aux[2] >>),
              Tuple_eq_SizeHint(<< aux[1], aux[2] >>, ha))

FromRange == Converted("Range", SizeHint_try_from_Range(aux[1], aux[3]), None)

FromRangeInclusive ==
    Converted("RangeInclusive", SizeHint_try_from_RangeInclusive(aux[1], aux[3]), None)

FromRangeFull == Converted("RangeFull", SizeHint_from_RangeFull, None)

FromRangeFrom == Converted("RangeFrom", SizeHint_from_RangeFrom(aux[1]), None)

FromRangeTo == Converted("RangeTo", SizeHint_try_from_RangeTo(aux[3]), None)

FromRangeToInclusive ==
    Converted("RangeToInclusive", SizeHint_from_RangeToInclusive(aux[3]), None)

NextConv ==
    \/ IntoTuple
    \/ TryFromTuple
    \/ EqTuple
    \/ FromRange
    \/ FromRangeInclusive
    \/ FromRangeFull
    \/ FromRangeFrom
    \/ FromRangeTo
    \/ FromRangeToInclusive

SpecConv == InitConv /\ [][NextConv]_vars

\* ------------------------------------------------------------------------
\* Properties
\* ------------------------------------------------------------------------
Max(a, b) == IF a >= b THEN a ELSE b

\* lower <= upper whenever the upper bound is present, for a hint tuple
ValidTuple(t) == IsSome(t[2]) => t[1] <= Unwrap(t[2])

\* the hint the wrapped producer reports in the current state
WrappedHint == Iter_size_hint(iterator)

\* C1: an ExactLen built with declared count n reports len = max(n - k, 0)
\* after k elements came back from either end; over a producer of exactly n
\* elements the count equals the number of elements left, and is 0 once all
\* n are consumed.
C1_CountTracking ==
    adaptor = "ExactLen" =>
        /\ ExactLen_len(len) = Max(args[1] - consumed, 0)
        /\ (consumed + Len(Remaining(iterator)) = args[1]) =>
               /\ ExactLen_len(len) = Len(Remaining(iterator))
               /\ (consumed = args[1] => ExactLen_len(len) = 0)

C1_Witness ==
    /\ adaptor = "ExactLen"
    /\ iterator.kind = "Range"
    /\ args[1] = 4
    /\ consumed = 4
    /\ len = 0

\* C2: in every state of an ExactLen, size_hint() is (len, Some(len)) for the
\* value len() returns.
C2_HintIsLen ==
    adaptor = "ExactLen" =>
        ExactLen_size_hint(len) = << ExactLen_len(len), Some(ExactLen_len(len)) >>

C2_Witness ==
    /\ adaptor = "ExactLen"
    /\ pc = "live"
    /\ consumed >= 1
    /\ calls > consumed
    /\ ret = None
    /\ len >= 1

\* C3: a HintSize built with hint (l, u) reports, after k elements came back,
\* (max(l - k, 0), Some(max(u - k, 0))) when u is present and
\* (max(l - k, 0), None) otherwise, whichever ends the elements came from.
C3_HintTracking ==
    adaptor = "HintSize" =>
        /\ ctor \in {"HintSize::new", "HintSize::try_new"} =>
               HintSize_size_hint(hint) =
                   << Max(args[1] - consumed, 0), Some(Max(args[2] - consumed, 0)) >>
        /\ ctor \in {"HintSize::min", "HintSize::try_min"} =>
               HintSize_size_hint(hint) = << Max(args[1] - consumed, 0), None >>

C3_Witness ==
    /\ adaptor = "HintSize"
    /\ ctor = "HintSize::new"
    /\ args = << 2, 5 >>
    /\ consumed = 4
    /\ hint = SizeHintOf(0, Some(1))

\* C4: HintSize::hide succeeds on every producer and the adaptor reports
\* (0, None) before and after every next/next_back call.
C4_HideUniversal ==
    ctor = "HintSize::hide" =>
        /\ outcome = "Ok"
        /\ adaptor = "HintSize"
        /\ HintSize_size_hint(hint) = << 0, None >>

C4_Witness ==
    /\ ctor = "HintSize::hide"
    /\ pc = "live"
    /\ consumed >= 2
    /\ calls >= consumed + 2
    /\ ret = None
    /\ HintSize_size_hint(hint) = << 0, None >>

\* C5: over a producer with a valid hint (wl, wu), ExactLen::try_new(p, n) is
\* Err exactly when n < wl or wu is present and n > wu; otherwise it is Ok
\* with len = n.
C5_ExactLenTryNew ==
    (ctor = "ExactLen::try_new" /\ calls = 0 /\ ValidTuple(WrappedHint)) =>
        LET n == args[1]
            outside == \/ n < WrappedHint[1]
                       \/ (IsSome(WrappedHint[2]) /\ n > Unwrap(WrappedHint[2]))
        IN  /\ outcome = "Err" <=> outside
            /\ ~outside => (outcome = "Ok" /\ adaptor = "ExactLen" /\ len = n)

C5_Witness ==
    /\ ctor = "ExactLen::try_new"
    /\ iterator.kind = "Range"
    /\ Len(iterator.items) = 4
    /\ args[1] = 6
    /\ outcome = "Err"

\* C6: over a producer with a valid hint (wl, wu), HintSize::try_new(p, l, u)
\* is Err exactly when l > u, or u < wl, or wu is present and l > wu;
\* otherwise it is Ok with hint (l, Some(u)).
C6_HintSizeTryNew ==
    (ctor = "HintSize::try_new" /\ calls = 0 /\ ValidTuple(WrappedHint)) =>
        LET l == args[1]
            u == args[2]
            rejected == \/ l > u
                        \/ u < WrappedHint[1]
                        \/ (IsSome(WrappedHint[2]) /\ l > Unwrap(WrappedHint[2]))
        IN  /\ outcome = "Err" <=> rejected
            /\ ~rejected =>
                   (outcome = "Ok" /\ adaptor = "HintSize" /\ hint = SizeHintOf(l, Some(u)))

C6_Witness ==
    /\ ctor = "HintSize::try_new"
    /\ iterator.kind = "Range"
    /\ Len(iterator.items) = 4
    /\ args = << 3, 5 >>
    /\ outcome = "Ok"
    /\ calls = 0

\* C7: over a producer with a valid hint (wl, wu), HintSize::try_min(p, l) is
\* Err exactly when wu is present and l > wu; otherwise it is Ok with hint
\* (l, None).
C7_HintSizeTryMin ==
    (ctor = "HintSize::try_min" /\ calls = 0 /\ ValidTuple(WrappedHint)) =>
        LET l == args[1]
            rejected == IsSome(WrappedHint[2]) /\ l > Unwrap(WrappedHint[2])
        IN  /\ outcome = "Err" <=> rejected
            /\ ~rejected =>
                   (outcome = "Ok" /\ adaptor = "HintSize" /\ hint = SizeHintOf(l, None))

C7_Witness ==
    /\ ctor = "HintSize::try_min"
    /\ iterator.kind = "Range"
    /\ Len(iterator.items) = 4
    /\ args[1] = 6
    /\ outcome = "Err"

ValidatingCtors ==
    {"ExactLen::new", "ExactLen::try_new", "HintSize::new", "HintSize::try_new",
     "HintSize::min", "HintSize::try_min"}

\* C8: when the wrapped producer's own hint is malformed (lower > upper),
\* every validating constructor panics, whatever the declared arguments.
C8_MalformedAlwaysPanics ==
    (ctor \in ValidatingCtors /\ calls = 0 /\ ~ValidTuple(WrappedHint)) =>
        outcome = "Panic"

\* what the fallible twin of the panicking constructor returns for the same
\* producer and arguments
Twin ==
    CASE ctor = "ExactLen::new" -> ExactLen_try_new(iterator, args[1])
      [] ctor = "HintSize::new" -> HintSize_try_new(iterator, args[1], args[2])
      [] ctor = "HintSize::min" -> HintSize_try_min(iterator, args[1])
      [] ctor = "SizeHint::new" -> SizeHint_try_new(args[1], args[2])
      [] ctor = "SizeHint::bounded" -> SizeHint_try_bounded(args[1], args[2])

PanickingCtors ==
    {"ExactLen::new", "HintSize::new", "HintSize::min", "SizeHint::new", "SizeHint::bounded"}

\* the value the panicking constructor left in the state
Built ==
    CASE adaptor = "ExactLen" -> [iterator |-> iterator, len |-> len]
      [] adaptor = "HintSize" -> [iterator |-> iterator, hint |-> hint]
      [] OTHER -> hint

\* C9: a panicking constructor panics exactly when its try_ twin returns Err
\* or panics on the same arguments, and otherwise builds the value the twin
\* returns in Ok.
C9_TwinsAgree ==
    (ctor \in PanickingCtors /\ calls = 0) =>
        /\ outcome = "Panic" <=> Twin.tag \in {"Err", "Panic"}
        /\ outcome # "Panic" => (outcome = "Ok" /\ Twin.tag = "Ok" /\ Built = Twin.value)

C9_Witness ==
    /\ ctor = "HintSize::min"
    /\ outcome = "Panic"
    /\ ValidTuple(WrappedHint)
    /\ Twin.tag = "Err"

\* C10: once a next/next_back call on an ExactLen has returned None, every
\* later call returns None and leaves len as it was.
C10_NoResurrection ==
    [][(adaptor = "ExactLen" /\ pc = "live" /\ calls > 0 /\ ret = None /\ calls' > calls)
          => (pc' = "live" /\ ret' = None /\ len' = len)]_vars

C10_Witness ==
    /\ adaptor = "ExactLen"
    /\ pc = "live"
    /\ ret = None
    /\ consumed >= 1
    /\ calls >= consumed + 2

BoundedCtors == {"HintSize::new", "HintSize::try_new"}

\* C11: a HintSize holding a bounded hint was built over a fused producer, so
\* it never yields an element after it has returned None.
C11_BoundedNeverResumes ==
    [][(adaptor = "HintSize" /\ ctor \in BoundedCtors /\ pc = "live"
        /\ calls > 0 /\ ret = None /\ calls' > calls) => ret' = None]_vars

\* the wrapped producer's own answer to the method polled last
WrappedStep ==
    IF method' = "next" THEN Iter_next(iterator) ELSE Iter_next_back(iterator)

\* C12: every next/next_back call on ExactLen or HintSize returns what the
\* wrapped producer returns for the same call and advances it exactly once.
C12_PassThrough ==
    [][(calls' > calls /\ pc' = "live") =>
          /\ ~WrappedStep.panic
          /\ ret' = WrappedStep.item
          /\ iterator' = WrappedStep.iterator]_vars

C12_Witness ==
    /\ adaptor = "ExactLen"
    /\ pc = "live"
    /\ iterator.kind = "Filter"
    /\ method = "next_back"
    /\ IsSome(ret)
    /\ consumed >= 2

\* C13: next/next_back never fail on their own: a panic after construction is
\* the wrapped producer's, Err comes from constructors only, and the count and
\* the hint bounds never go below zero.
C13_ProductionNeverFails ==
    /\ (pc = "panicked" /\ calls > 0) =>
           (IF method = "next" THEN Iter_next(iterator).panic
                               ELSE Iter_next_back(iterator).panic)
    /\ pc = "failed" => (calls = 0 /\ outcome = "Err")
    /\ adaptor = "ExactLen" => len \in Nat
    /\ adaptor = "HintSize" =>
           /\ hint.lower \in Nat
           /\ IsSome(hint.upper) => Unwrap(hint.upper) \in Nat

C13_Witness ==
    /\ adaptor = "ExactLen"
    /\ pc = "live"
    /\ len = 0
    /\ consumed > args[1]
    /\ IsSome(ret)

\* C14: the hint a HintSize stores satisfies lower <= upper whenever upper is
\* present, after construction and after every next/next_back call.
C14_HintStaysValid ==
    adaptor = "HintSize" => ValidTuple(HintSize_size_hint(hint))

C14_Witness ==
    /\ adaptor = "HintSize"
    /\ pc = "live"
    /\ IsSome(hint.upper)
    /\ hint.lower = 0
    /\ Unwrap(hint.upper) >= 1
    /\ consumed >= 1
    /\ calls > consumed

OverlapCtors == {"HintSize::new", "HintSize::try_new", "HintSize::min", "HintSize::try_min"}

\* C15: the hint of a HintSize built by new, try_new, min or try_min overlaps
\* the hint the wrapped producer currently reports, at construction and after
\* every next/next_back call.
C15_HintOverlapsWrapped ==
    (adaptor = "HintSize" /\ pc = "live" /\ ctor \in OverlapCtors) =>
        SizeHint_overlaps(hint, SizeHintOf(WrappedHint[1], WrappedHint[2]))

\* C16: when the declared upper bound exceeds the number of elements the
\* producer yields, the hint is (0, Some(0)) once a call has returned None.
C16_ZeroAfterNone ==
    (adaptor = "HintSize" /\ ctor \in BoundedCtors /\ pc = "live" /\ IsFused(iterator)
     /\ calls > 0 /\ ret = None /\ args[2] > consumed) =>
        HintSize_size_hint(hint) = << 0, Some(0) >>

\* C17: decrement maps (l, u) to (max(l - 1, 0), Some(max(u - 1, 0))) and
\* (l, None) to (max(l - 1, 0), None); applied `times` times in a row each
\* bound has lost `times`, floored at zero on its own.
C17_Decrement ==
    (pc = "hints" /\ op = "decrement") =>
        res = SizeHintOf(Max(ha.lower - times, 0),
                         IF IsSome(ha.upper)
                         THEN Some(Max(Unwrap(ha.upper) - times, 0))
                         ELSE None)

C17_Witness ==
    /\ pc = "hints"
    /\ op = "decrement"
    /\ times = 1
    /\ ha = SizeHintOf(0, Some(3))
    /\ res = SizeHintOf(0, Some(2))

\* C18: any number of decrements of ZERO gives ZERO, and of UNIVERSAL gives
\* UNIVERSAL.
C18_DecrementFloor ==
    (pc = "hints" /\ op = "decrement") =>
        /\ ha = ZERO => res = ZERO
        /\ ha = UNIVERSAL => res = UNIVERSAL

C18_Witness ==
    /\ pc = "hints"
    /\ op = "decrement"
    /\ times >= 2
    /\ ha = ZERO
    /\ res = ZERO
    /\ hb = UNIVERSAL
    /\ rev = UNIVERSAL

\* k lies in the interval h describes
InHint(h, k) == h.lower <= k /\ (IsSome(h.upper) => k <= Unwrap(h.upper))

\* C19: overlaps(a, b) is true exactly when some count lies in both intervals.
C19_OverlapsIffCommonCount ==
    (pc = "hints" /\ op = "overlaps") =>
        (res <=> \E k \in HintBounds : InHint(ha, k) /\ InHint(hb, k))

C19_Witness ==
    /\ pc = "hints"
    /\ op = "overlaps"
    /\ ha = SizeHintOf(1, Some(2))
    /\ hb = SizeHintOf(2, Some(3))
    /\ res = TRUE

\* C20: disjoint is the negation of overlaps, and both give the same answer
\* with their operands swapped.
C20_ComplementaryCommutative ==
    /\ (pc = "hints" /\ op = "overlaps") => res = rev
    /\ (pc = "hints" /\ op = "disjoint") =>
           /\ res = rev
           /\ res = ~SizeHint_overlaps(ha, hb)

C20_Witness ==
    /\ pc = "hints"
    /\ op = "disjoint"
    /\ IsSome(ha.upper)
    /\ ~IsSome(hb.upper)
    /\ res = TRUE
    /\ rev = TRUE

\* C21: a.subset_of(b) is true exactly when every count inside a is inside b
\* (counts up to MaxBound + 1 separate any two hints of the model); it is
\* false when a is unbounded and b bounded, and for an unbounded b it is true
\* exactly when a.lower >= b.lower.
C21_SubsetIffContained ==
    op = "subset_of" =>
        /\ res = (\A k \in 0..(MaxBound + 1) : InHint(ha, k) => InHint(hb, k))
        /\ (~IsSome(ha.upper) /\ IsSome(hb.upper)) => ~res
        /\ ~IsSome(hb.upper) => (res = (ha.lower >= hb.lower))

C21_Witness ==
    /\ op = "subset_of"
    /\ ha = SizeHintOf(2, Some(3))
    /\ hb = SizeHintOf(1, None)
    /\ res
    /\ ~rev

\* C22: subset_of is a partial order on valid hints: a is a subset of a; if a
\* is a subset of b and b of a then a = b; if a is a subset of b and b of c
\* then a is a subset of c.
C22_PartialOrder ==
    op = "subset_of" =>
        /\ aux[3]
        /\ (res /\ rev) => ha = hb
        /\ (res /\ aux[1]) => aux[2]

\* three distinct hints in a chain, the first pair related in one direction only
C22_Witness ==
    /\ op = "subset_of"
    /\ res /\ aux[1] /\ aux[2]
    /\ ~rev
    /\ ha # hb /\ hb # hc
    /\ ~IsSome(hc.upper)

\* C29: for valid a and b, a.decrement() is valid, and decrementing both sides
\* keeps overlaps and keeps subset_of.
C29_DecrementMonotone ==
    op = "decrement" =>
        /\ ValidTuple(SizeHint_into(res))
        /\ ValidTuple(SizeHint_into(rev))
        /\ SizeHint_overlaps(ha, hb) => SizeHint_overlaps(res, rev)
        /\ SizeHint_subset_of(ha, hb) => SizeHint_subset_of(res, rev)

C29_Witness ==
    /\ op = "decrement"
    /\ times = 1
    /\ ha = SizeHintOf(0, Some(0))
    /\ hb = SizeHintOf(0, Some(2))
    /\ res = SizeHintOf(0, Some(0))
    /\ rev = SizeHintOf(0, Some(1))
    /\ SizeHint_subset_of(res, rev)
\* the fields a fallible SizeHint constructor must return for (l, u), and the
\* outcome `bad` it must have when l > u
CtorAgrees(l, u, bad) ==
    /\ outcome = (IF l <= u THEN "Ok" ELSE bad)
    /\ outcome = "Ok" => hint = SizeHintOf(l, Some(u))

\* C23: try_bounded(l, u) and try_new(l, Some(u)) return Ok with the fields
\* (l, Some(u)) exactly when l <= u and Err otherwise, bounded and new panic
\* in exactly those cases; try_new(l, None), new(l, None), unbounded(l) and
\* exact(n) always succeed with (l, None), (l, None) and (n, Some(n)); no
\* constructor returns a hint with lower > upper.
C23_ConstructionValidity ==
    /\ ctor = "SizeHint::try_bounded" => CtorAgrees(args[1], args[2], "Err")
    /\ ctor = "SizeHint::bounded" => CtorAgrees(args[1], args[2], "Panic")
    /\ (ctor = "SizeHint::try_new" /\ IsSome(args[2])) =>
           CtorAgrees(args[1], Unwrap(args[2]), "Err")
    /\ (ctor = "SizeHint::new" /\ IsSome(args[2])) =>
           CtorAgrees(args[1], Unwrap(args[2]), "Panic")
    /\ (ctor \in {"SizeHint::try_new", "SizeHint::new"} /\ ~IsSome(args[2])) =>
           outcome = "Ok" /\ hint = SizeHintOf(args[1], None)
    /\ ctor = "SizeHint::unbounded" => outcome = "Ok" /\ hint = SizeHintOf(args[1], None)
    /\ ctor = "SizeHint::exact" =>
           outcome = "Ok" /\ hint = SizeHintOf(args[1], Some(args[1]))
    /\ pc = "value" => ValidTuple(SizeHint_into(hint))

C23_Witness ==
    /\ ctor = "SizeHint::try_bounded"
    /\ args = << 2, 2 >>
    /\ pc = "value"
    /\ hint = SizeHintOf(2, Some(2))

\* C26: into_inner returns the wrapped producer in the state the adaptor left
\* it: untouched right after construction, and after k elements were consumed
\* it yields exactly the elements of the original producer not yet consumed;
\* the stored count or hint has no influence on it.
C26_IntoInner ==
    pc = "unwrapped" =>
        /\ inner = Some(iterator)
        /\ calls = 0 => Unwrap(inner) = source
        /\ source.kind \in {"Range", "Filter"} =>
               LET rest == Remaining(Unwrap(inner))
                   all == Remaining(source)
               IN  /\ Len(all) = Len(rest) + consumed
                   /\ \E i \in 0..consumed : rest = SubSeq(all, i + 1, i + Len(rest))
        /\ source.kind = "Resuming" =>
               Unwrap(inner).items = SubSeq(source.items, calls + 1, Len(source.items))

\* unwrapped after elements were taken from both ends, the stored count
\* differing from what is left
C26_Witness ==
    /\ pc = "unwrapped"
    /\ adaptor = "ExactLen"
    /\ source.kind = "Filter"
    /\ consumed >= 2
    /\ method = "next_back"
    /\ Len(Remaining(Unwrap(inner))) >= 1
    /\ len # Len(Remaining(Unwrap(inner)))
C28_SoundOverExact ==
    (pc \in {"live", "unwrapped"} /\ iterator.kind = "Range") =>
        LET r == Len(Remaining(iterator))
        IN  /\ WrappedHint = << r, Some(r) >>
            /\ adaptor = "ExactLen" => ExactLen_len(len) = r
            /\ adaptor = "HintSize" => InHint(hint, r)

C28_Witness ==
    /\ adaptor = "HintSize"
    /\ ctor = "HintSize::try_min"
    /\ iterator.kind = "Range"
    /\ consumed >= 2
    /\ calls > consumed
    /\ ret = None
    /\ hint = UNIVERSAL

\* C30: ExactLen does not reset its count at exhaustion: when the declared
\* count n is larger than the number m of elements the producer yields, after
\* next() returned None len() is n - m > 0 and size_hint() is
\* (n - m, Some(n - m)) on every later call; len() is 0 at exhaustion exactly
\* when n <= m.
C30_CountNotReset ==
    (adaptor = "ExactLen" /\ pc \in {"live", "unwrapped"} /\ calls > 0 /\ ret = None) =>
        LET declared == args[1]
            m == consumed
        IN  /\ declared > m =>
                /\ ExactLen_len(len) = declared - m
                /\ ExactLen_len(len) > 0
                /\ ExactLen_size_hint(len) = << declared - m, Some(declared - m) >>
            /\ (ExactLen_len(len) = 0) = (declared <= m)
            /\ Remaining(iterator) = << >>

\* None was returned at least twice and the count is still positive
C30_Witness ==
    /\ adaptor = "ExactLen"
    /\ pc = "live"
    /\ ret = None
    /\ calls >= consumed + 2
    /\ consumed >= 1
    /\ len = args[1] - consumed
    /\ len >= 2
\* C24: the tuple conversions round-trip: try_from(h.into()) is Ok(h) for a
\* valid hint h; try_from(t) converted back is t for a tuple t with no upper
\* bound or lower <= upper, and try_from(t) is Err exactly when the upper
\* bound is present and below lower; h == t and t == h are true exactly when
\* lower and upper are equal field by field.
C24_TupleRoundTrip ==
    LET t == << aux[1], aux[2] >>
    IN  /\ op = "into" =>
            /\ res = << ha.lower, ha.upper >>
            /\ rev.tag = "Ok" /\ rev.value = ha
        /\ op = "try_from" =>
            /\ res.tag \in {"Ok", "Err"}
            /\ (res.tag = "Err") = (IsSome(t[2]) /\ t[1] > Unwrap(t[2]))
            /\ ValidTuple(t) => (res.tag = "Ok" /\ rev = Some(t))
        /\ op = "eq" =>
            /\ res = (ha.lower = t[1] /\ ha.upper = t[2])
            /\ rev = res

C24_Witness ==
    /\ op = "try_from"
    /\ aux[1] = 1
    /\ aux[2] = Some(3)
    /\ res.tag = "Ok"
    /\ res.value = SizeHintOf(1, Some(3))
    /\ rev = Some(<< 1, Some(3) >>)

\* the result r of a fallible range conversion is Ok(lower, Some(upper))
\* exactly when `nonempty`, and Err otherwise
RangeAgrees(r, nonempty, lower, upper) ==
    /\ r.tag = (IF nonempty THEN "Ok" ELSE "Err")
    /\ nonempty => r.value = SizeHintOf(lower, Some(upper))

\* C25: a..b converts to (a, Some(b - 1)) exactly when a < b and fails for
\* every empty or inverted range, 0..0 included; ..b converts to
\* (0, Some(b - 1)) exactly when b > 0; a..=b converts to (a, Some(b)) exactly
\* when a <= b; a.. gives (a, None), .. gives (0, None) and ..=b gives
\* (0, Some(b)); no conversion yields lower > upper.
C25_RangeConversions ==
    LET a == aux[1]
        b == aux[3]
    IN  /\ op = "Range" => RangeAgrees(res, a < b, a, b - 1)
        /\ op = "RangeTo" => RangeAgrees(res, b > 0, 0, b - 1)
        /\ op = "RangeInclusive" => RangeAgrees(res, a <= b, a, b)
        /\ op = "RangeFrom" => res = SizeHintOf(a, None)
        /\ op = "RangeFull" => res = SizeHintOf(0, None)
        /\ op = "RangeToInclusive" => res = SizeHintOf(0, Some(b))
        /\ (op \in {"Range", "RangeTo", "RangeInclusive"} /\ res.tag = "Ok") =>
               ValidTuple(SizeHint_into(res.value))
        /\ op \in {"RangeFrom", "RangeFull", "RangeToInclusive"} =>
               ValidTuple(SizeHint_into(res))

\* the empty range 0..0 is refused
C25_Witness ==
    /\ op = "Range"
    /\ aux[1] = 0
    /\ aux[3] = 0
    /\ res.tag = "Err"
====
